---- MODULE Spec2Model ----
(***************************************************************************)
(* Returns calculator (src/src/main.py): the recursive search max_return   *)
(* for the best currency-conversion path over a rate array, its caller     *)
(* calculate_max_return, the loader load_data and the entry point main.    *)
(*                                                                         *)
(* Numbers are integers: the rates and portfolio values explored are       *)
(* integer-valued floats, on which Python's arithmetic is exact in the     *)
(* modelled range.  The rounding of fractional floats is not modelled.     *)
(* A Python str is a sequence of characters, a Python list a sequence, and  *)
(* a numpy array a record of its shape and its nested data; a number is an *)
(* array of no axes.  numpy is release 1.24 or later.  The interpreter is  *)
(* CPython 3.11 with its recursion limit as shipped: the program never     *)
(* calls sys.setrecursionlimit.                                            *)
(***************************************************************************)
EXTENDS Integers, Sequences, FiniteSets, TLC

\* Largest num_months of a modelled call of max_return.
MaxMonths == 3
\* Largest num_currencies of a modelled call of max_return.
MaxCurrencies == 2
\* Rates of the generated arrays lie in 0..MaxRate.
MaxRate == 2
\* Valid starting portfolio values lie in 0..MaxValue.
MaxValue == 2
\* Generated arrays are numbered 0..MaxSeed.
MaxSeed == 11
\* Scaling factors of the homogeneity check lie in 1..MaxFactor.
MaxFactor == 3
\* A fourth axis of a generated array has a length in 0..MaxAxis.
MaxAxis == 2
\* The shape load_data requires: 12 months of 4 currencies.
RequiredMonths == 12
RequiredCurrencies == 4
\* sys.getrecursionlimit() of the interpreter as shipped.
RecursionLimit == 1000
\* The frames below the caller of os.getenv: getenv, Mapping.get,
\* _Environ.__getitem__ and the encode or decode it calls.
GetenvFrames == 4
\* The calls explored near the limit leave room for 0..MaxRoom frames.
MaxRoom == 10

VARIABLES
    args,                 \* the outer call's scalar arguments of max_return
    monthly_returns_arr,  \* the array argument of max_return
    env,                  \* os.environ: variable name -> str, or Unset
    numpy,                \* the release line of the numpy installed
    python,               \* the interpreter where the outer call is made
    stack,                \* the active calls of max_return, outermost first
    outcome,              \* "idle", "running", "returned", "raised"
    result,               \* the value the outer call returned
    error,                \* the exception class that left the outer call
    calls,                \* invocations of max_return so far
    leaves,               \* last-month evaluations completed so far
    lookups,              \* rate lookups performed so far
    maxdepth,             \* deepest stack so far
    last,                 \* the most recently completed call of max_return
    main_pc,              \* position of main
    input_args,           \* main's argument list
    fs,                   \* the file DATA_FOLDER + input_filename
    monthly_returns_matrix, \* what load_data returned to main
    stdout,               \* lines printed, as tagged records
    log,                  \* records logged, as tags
    trace,                \* functions main has invoked, in order
    exit_code             \* the process status once main_pc = "exited"

vars == <<args, monthly_returns_arr, env, numpy, python, stack, outcome, result, error, calls,
          leaves, lookups, maxdepth, last, main_pc, input_args, fs,
          monthly_returns_matrix, stdout, log, trace, exit_code>>

optvars == <<args, monthly_returns_arr, stack, outcome, result, error, calls,
             leaves, lookups, maxdepth, last>>

mainvars == <<main_pc, input_args, fs, monthly_returns_matrix, stdout, log,
              trace, exit_code>>

None == "None"
Unset == <<"unset">>

----------------------------------------------------------------------------
(* Python and numpy primitives the program uses. *)

\* A call's result: a value, or the exception class it raised.
Return(v) == [ok |-> TRUE, val |-> v, err |-> None]
Raise(e) == [ok |-> FALSE, val |-> 0, err |-> e]

\* F(v), with v evaluated once.
Bind(v, F(_)) == CHOOSE r \in {F(x) : x \in {v}} : TRUE

\* A character of a str is a one-character string when it is printable ASCII
\* or one of \t \n \f \r, and otherwise the name of its code point, as
\* "U+0663" for ARABIC-INDIC DIGIT THREE.
Hex == <<"0", "1", "2", "3", "4", "5", "6", "7", "8", "9",
         "A", "B", "C", "D", "E", "F">>

RECURSIVE HexDigits(_, _)
HexDigits(n, width) ==
    IF n = 0 /\ width <= 0 THEN ""
    ELSE HexDigits(n \div 16, width - 1) \o Hex[(n % 16) + 1]

CodePoint(n) == "U+" \o HexDigits(n, 4)

Digits == <<"0", "1", "2", "3", "4", "5", "6", "7", "8", "9">>

\* The code points of the digit zero of every other decimal system: each is
\* followed by its digits one to nine.
DigitZeros ==
    {1632, 1776, 1984, 2406, 2534, 2662, 2790, 2918, 3046, 3174, 3302,
     3430, 3558, 3664, 3792, 3872, 4160, 4240, 6112, 6160, 6470, 6608,
     6784, 6800, 6992, 7088, 7232, 7248, 42528, 43216, 43264, 43472, 43504,
     43600, 44016, 65296, 66720, 68912, 69734, 69872, 69942, 70096, 70384,
     70736, 70864, 71248, 71360, 71472, 71904, 72016, 72784, 73040, 73120,
     92768, 92864, 93008, 120782, 120792, 120802, 120812, 120822, 123200,
     123632, 125264, 130032}

\* The decimal digits outside ASCII, each with its value.
NamedDigits == {<<CodePoint(z + d), d>> : z \in DigitZeros, d \in 0..9}

\* Whether int() reads the character as a decimal digit.
IsDigit(ch) ==
    IF Len(ch) = 1 THEN \E d \in 1..10 : Digits[d] = ch
    ELSE \E p \in NamedDigits : p[1] = ch

DigitVal(ch) ==
    IF Len(ch) = 1 THEN (CHOOSE d \in 1..10 : Digits[d] = ch) - 1
    ELSE (CHOOSE p \in NamedDigits : p[1] = ch)[2]

RECURSIVE DigitsVal(_)
DigitsVal(s) ==
    IF s = <<>> THEN 0
    ELSE 10 * DigitsVal(SubSeq(s, 1, Len(s) - 1)) + DigitVal(s[Len(s)])

\* The whitespace outside printable ASCII and \t \n \f \r.
NamedWhitespace ==
    {CodePoint(n) : n \in
       {11, 133, 160, 5760, 8192, 8193, 8194, 8195, 8196, 8197, 8198, 8199,
        8200, 8201, 8202, 8232, 8233, 8239, 8287, 12288}}

\* Whether int() strips the character from the ends of a str.
IsSpace(ch) ==
    IF Len(ch) = 1 THEN ch \in {" ", "\t", "\n", "\f", "\r"}
    ELSE ch \in NamedWhitespace

Strip(s) ==
    Bind({k \in 1..Len(s) : ~IsSpace(s[k])},
         LAMBDA kept :
           IF kept = {} THEN <<>>
           ELSE SubSeq(s, CHOOSE k \in kept : \A l \in kept : k <= l,
                          CHOOSE k \in kept : \A l \in kept : l <= k))

\* Whether body is decimal digits that single underscores separate.
IsNumeral(body) ==
    /\ body # <<>>
    /\ \A k \in 1..Len(body) :
         \/ IsDigit(body[k])
         \/ /\ body[k] = "_"
            /\ 1 < k /\ k < Len(body)
            /\ IsDigit(body[k - 1]) /\ IsDigit(body[k + 1])

\* sys.get_int_max_str_digits(): the most digits int() converts, by default.
MaxStrDigits == 4300

\* int(s) of a str: surrounding whitespace, an optional sign and decimal
\* digits, no more than MaxStrDigits of them, that single underscores may
\* separate; anything else is a ValueError.
PyInt(s) ==
    Bind(Strip(s),
         LAMBDA stripped :
           LET signed == Len(stripped) >= 1 /\ stripped[1] \in {"-", "+"}
               body == IF signed THEN Tail(stripped) ELSE stripped
           IN  IF ~IsNumeral(body) THEN Raise("ValueError")
               ELSE Bind(SelectSeq(body, IsDigit),
                         LAMBDA digits :
                           IF Len(digits) > MaxStrDigits
                           THEN Raise("ValueError")
                           ELSE Return(IF signed /\ stripped[1] = "-"
                                       THEN 0 - DigitsVal(digits)
                                       ELSE DigitsVal(digits))))

\* The interpreter as a call sees it: frames, the Python frames in use, the
\* caller's included; specialized, whether the interpreter has specialised
\* the call sites of os.py, after which the calls into C that the deepest
\* frame makes are no longer counted against the limit.
Interpreter(frames, specialized) ==
    [frames |-> frames, specialized |-> specialized]

\* The interpreter of a call made from the module's top level: whether os.py
\* is specialised depends on what the process has run before.
TopLevel(specialized) == Interpreter(1, specialized)

\* A call of a Python function under py: the interpreter inside the call,
\* one frame deeper.  The callee's frame is entered while it is within the
\* recursion limit; beyond it the call raises RecursionError in the caller.
PyCall(py) ==
    IF py.frames + 1 > RecursionLimit THEN Raise("RecursionError")
    ELSE Return([py EXCEPT !.frames = py.frames + 1])

\* The frame running under py is the last the recursion limit allows: its
\* statements without a call or comparison run, a call or a comparison that
\* is not specialised raises RecursionError.
AtLimit(py) == py.frames >= RecursionLimit

\* e.get(name, default) of the environment.
getenv(e, name, default) == IF e[name] = Unset THEN default ELSE e[name]

\* os.getenv(name, default) called under py: its GetenvFrames frames have to
\* fit within the recursion limit, the deepest of them strictly below it
\* until the interpreter has specialised.
os_getenv(e, name, default, py) ==
    IF py.frames + GetenvFrames + (IF py.specialized THEN 0 ELSE 1)
         > RecursionLimit
    THEN Raise("RecursionError")
    ELSE Return(getenv(e, name, default))

\* range(n).
PyRange(n) == 0..(n - 1)

\* numpy's index normalisation along an axis of length dim: negative indices
\* count from the end, anything outside -dim..dim-1 is an IndexError.
NpIndex(i, dim) ==
    IF 0 <= i /\ i < dim THEN Return(i)
    ELSE IF 0 - dim <= i /\ i < 0 THEN Return(i + dim)
    ELSE Raise("IndexError")

\* arr[p, i, j]: the element of a three-dimensional array, the sub-array of
\* the remaining axes of a larger one, an IndexError of a smaller one.
NpGet(arr, p, i, j) ==
    IF Len(arr.shape) < 3 THEN Raise("IndexError")
    ELSE LET a == NpIndex(p, arr.shape[1])
             b == NpIndex(i, arr.shape[2])
             c == NpIndex(j, arr.shape[3])
         IN  IF ~a.ok \/ ~b.ok \/ ~c.ok THEN Raise("IndexError")
             ELSE Return([shape |-> SubSeq(arr.shape, 4, Len(arr.shape)),
                          data |-> arr.data[a.val + 1][b.val + 1][c.val + 1]])

\* A Python number as a value.
Num(n) == [shape |-> <<>>, data |-> n]

RECURSIVE NpSize(_)
NpSize(shape) == IF shape = <<>> THEN 1 ELSE shape[1] * NpSize(Tail(shape))

\* The shape two operands broadcast to: axes are matched from the last, and
\* matched lengths are equal or one of them is 1; else a ValueError.
RECURSIVE NpBroadcast(_, _)
NpBroadcast(s, t) ==
    IF s = <<>> THEN Return(t)
    ELSE IF t = <<>> THEN Return(s)
    ELSE LET a == s[Len(s)]
             b == t[Len(t)]
             rest == NpBroadcast(SubSeq(s, 1, Len(s) - 1),
                                 SubSeq(t, 1, Len(t) - 1))
         IN  IF a # b /\ a # 1 /\ b # 1 THEN Raise("ValueError")
             ELSE IF ~rest.ok THEN rest
             ELSE Return(Append(rest.val, IF a = 1 THEN b ELSE a))

\* The data of x op y, element by element, for data a of shape s and data b
\* of shape t that broadcast.
RECURSIVE NpZip(_, _, _, _, _)
NpZip(op, a, s, b, t) ==
    IF s = <<>> /\ t = <<>> THEN (IF op = "*" THEN a * b ELSE a > b)
    ELSE IF Len(s) > Len(t)
    THEN [k \in 1..s[1] |-> NpZip(op, a[k], Tail(s), b, t)]
    ELSE IF Len(s) < Len(t)
    THEN [k \in 1..t[1] |-> NpZip(op, a, s, b[k], Tail(t))]
    ELSE [k \in 1..(IF s[1] = 1 THEN t[1] ELSE s[1]) |->
            NpZip(op, a[IF s[1] = 1 THEN 1 ELSE k], Tail(s),
                      b[IF t[1] = 1 THEN 1 ELSE k], Tail(t))]

NpOp(op, x, y) ==
    Bind(NpBroadcast(x.shape, y.shape),
         LAMBDA s :
           IF ~s.ok THEN s
           ELSE Return([shape |-> s.val,
                        data |-> NpZip(op, x.data, x.shape, y.data, y.shape)]))

\* x * y.
NpMul(x, y) == NpOp("*", x, y)

\* x > y.
NpGreater(x, y) == NpOp(">", x, y)

RECURSIVE NpItem(_, _)
NpItem(data, axes) == IF axes = 0 THEN data ELSE NpItem(data[1], axes - 1)

\* The release lines of numpy that differ on an array of no element.
NumpyReleases == {"before_2_2", "from_2_2"}

\* bool(x): of one element, the element; of several, a ValueError; of none,
\* False (and a DeprecationWarning) before numpy 2.2 and a ValueError since.
NpBool(x, np) ==
    IF NpSize(x.shape) = 1 THEN Return(NpItem(x.data, Len(x.shape)))
    ELSE IF NpSize(x.shape) = 0 /\ np = "before_2_2" THEN Return(FALSE)
    ELSE Raise("ValueError")

\* max(a, b): b when bool(b > a), else a.
PyMax(a, b, np) ==
    Bind(NpGreater(b, a),
         LAMBDA g :
           IF ~g.ok THEN g
           ELSE Bind(NpBool(g.val, np),
                     LAMBDA t :
                       IF ~t.ok THEN t ELSE Return(IF t.val THEN b ELSE a)))

\* np.array(data) of a parsed JSON value (a number [t |-> "num", v |-> n] or
\* a list [t |-> "list", items |-> <<...>>]): the shape of a homogeneous
\* nesting, ValueError for a ragged one.
RECURSIVE NpShape(_)
NpShape(j) ==
    IF j.t = "num" THEN Return(<<>>)
    ELSE IF j.items = <<>> THEN Return(<<0>>)
    ELSE LET sub == [k \in 1..Len(j.items) |-> NpShape(j.items[k])]
         IN  IF \A k \in 1..Len(sub) : sub[k].ok /\ sub[k].val = sub[1].val
             THEN Return(<<Len(j.items)>> \o sub[1].val)
             ELSE Raise("ValueError")

RECURSIVE NpData(_)
NpData(j) ==
    IF j.t = "num" THEN j.v
    ELSE [k \in 1..Len(j.items) |-> NpData(j.items[k])]

NpArray(j) ==
    LET s == NpShape(j)
    IN  IF s.ok THEN Return([shape |-> s.val, data |-> NpData(j)]) ELSE s

----------------------------------------------------------------------------
(* The inputs: a numbered family of rate arrays of any shape. *)

\* Entry (p, i, j) of array number seed: a value in 0..MaxRate.
Rate(seed, p, i, j) ==
    (((seed + 1) * (3 * p + 5 * i + 7 * j + 1)
      + (seed \div 3) * (p + 2 * i + j)) % 11) % (MaxRate + 1)

At(ix, k) == IF k <= Len(ix) THEN ix[k] ELSE 0

\* The JSON value of array number seed with the given shape, below index ix.
RECURSIVE JsonNested(_, _, _, _)
JsonNested(shape, ix, seed, lo) ==
    IF Len(ix) = Len(shape)
    THEN [t |-> "num",
          v |-> lo + Rate(seed, At(ix, 1), At(ix, 2), At(ix, 3) + At(ix, 4))]
    ELSE [t |-> "list",
          items |-> [k \in 1..shape[Len(ix) + 1] |->
                        JsonNested(shape, Append(ix, k - 1), seed, lo)]]

\* Array number seed of the given shape, with rates in 0..MaxRate.
Tensor(shape, seed) == NpArray(JsonNested(shape, <<>>, seed, 0)).val

\* The same with every rate lowered by one: rates in -1..MaxRate-1.
LoweredTensor(shape, seed) == NpArray(JsonNested(shape, <<>>, seed, -1)).val

\* The two-month scenario of the design document: 0 -> 1 at rate 2, then
\* 1 -> 0 at rate 3.
ScenarioTensor ==
    [shape |-> <<2, 2, 2>>,
     data |-> << << <<1, 2>>, <<1, 1>> >>, << <<1, 1>>, <<3, 1>> >> >>]

NoMatrix == [shape |-> <<"unbound">>, data |-> <<>>]

NoFile == [exists |-> FALSE, json |-> FALSE, value |-> [t |-> "num", v |-> 0]]

NoCall == [month |-> 0, from_currency |-> 0, portfolio_value |-> Num(0),
           ret |-> Num(0), how |-> "none"]

\* A decimal numeral of 0..99 as a str.
Str(n) == IF n < 10 THEN <<Digits[n + 1]>>
          ELSE <<Digits[(n \div 10) + 1], Digits[(n % 10) + 1]>>

EnvNames == {"TO_TRADE_CURRENCY", "FROM_CURRENCY", "START_MONTH"}

NoEnv == [n \in EnvNames |-> Unset]

----------------------------------------------------------------------------
(* max_return, one call at a time.  A frame is one active call: its        *)
(* arguments, the loop variable to_trade_currency and max_total_returns.   *)

\* Line 108: max_total_returns before the loop.
max_total_returns == Num(0)

Frame(m, c, v) ==
    [month |-> m, from_currency |-> c, portfolio_value |-> v,
     to_trade_currency |-> 0, max_total_returns |-> max_total_returns]

\* The trade's return with its sign turned.
TradeOutcomeLoss(m, c, v, d, arr) ==
    Bind(NpGet(arr, m, c, d),
         LAMBDA r : IF ~r.ok THEN r ELSE NpMul(NpMul(v, r.val).val, Num(-1)))

\* Lines 112-113, and 104-105 alike: the trade from currency c into d.
TradeOutcome(m, c, v, d, arr) ==
    Bind(NpGet(arr, m, c, d),
         LAMBDA r : IF ~r.ok THEN r ELSE NpMul(v, r.val))

\* Line 103: int(os.getenv("TO_TRADE_CURRENCY", "0")) under py.
to_trade_currency(e, py) ==
    Bind(os_getenv(e, "TO_TRADE_CURRENCY", <<"0">>, py),
         LAMBDA s : IF ~s.ok THEN s ELSE PyInt(s.val))

\* Lines 103-106: the last month's trade into TO_TRADE_CURRENCY.
LastMonthOutcome(m, c, v, arr, e, py) ==
    Bind(to_trade_currency(e, py),
         LAMBDA t : IF ~t.ok THEN t ELSE TradeOutcome(m, c, v, t.val, arr))

\* Line 101: whether the call is the last month's.
IsLastMonth(m, nm) == m = nm - 1

Top == stack[Len(stack)]

\* The interpreter inside the running call: a frame per active call.
TopPython == [python EXCEPT !.frames = python.frames + Len(stack)]

Running == outcome = "running" /\ stack # <<>>

\* The call on top returns ret: out of the outer call, or to its caller's
\* line 126, where max() takes it or raises.
Finish(ret, how) ==
    /\ last' = [month |-> Top.month, from_currency |-> Top.from_currency,
                portfolio_value |-> Top.portfolio_value, ret |-> ret,
                how |-> how]
    /\ IF Len(stack) = 1
       THEN /\ stack' = <<>>
            /\ outcome' = "returned"
            /\ result' = ret
            /\ UNCHANGED error
       ELSE \E caller \in {stack[Len(stack) - 1]} :
              \E larger \in {PyMax(caller.max_total_returns, ret, numpy)} :
                IF larger.ok
                THEN /\ stack' = [SubSeq(stack, 1, Len(stack) - 1)
                                    EXCEPT ![Len(stack) - 1] =
                                      [caller EXCEPT
                                         !.max_total_returns = larger.val,
                                         !.to_trade_currency =
                                            caller.to_trade_currency + 1]]
                     /\ UNCHANGED <<outcome, result, error>>
                ELSE /\ stack' = <<>>
                     /\ outcome' = "raised"
                     /\ error' = larger.err
                     /\ UNCHANGED result

\* An exception leaves every active call: max_return catches nothing.
Unwind(e) ==
    /\ stack' = <<>>
    /\ outcome' = "raised"
    /\ error' = e
    /\ UNCHANGED <<result, last>>

\* The outer call is made: its frame is entered.
Call ==
    /\ outcome = "idle"
    /\ main_pc = "off"
    /\ PyCall(python).ok
    /\ stack' = <<Frame(args.month, args.from_currency,
                        Num(args.portfolio_value))>>
    /\ outcome' = "running"
    /\ calls' = 1
    /\ maxdepth' = 1
    /\ UNCHANGED <<args, monthly_returns_arr, env, numpy, python, result,
                   error, leaves, lookups, last, mainvars>>

\* The outer call is made by a frame at the recursion limit: the call
\* raises in the caller and no frame of max_return is entered.
CallRaise ==
    /\ outcome = "idle"
    /\ main_pc = "off"
    /\ ~PyCall(python).ok
    /\ Unwind(PyCall(python).err)
    /\ UNCHANGED <<args, monthly_returns_arr, env, numpy, python, calls,
                   leaves, lookups, maxdepth, mainvars>>

\* Lines 101-111 in a frame at the recursion limit: the comparison of line
\* 101 raises RecursionError, or when the interpreter has specialised it,
\* the call of line 103 or range() of line 111 does.  No lookup is made.
LimitRaise ==
    /\ Running
    /\ AtLimit(TopPython)
    /\ Unwind("RecursionError")
    /\ UNCHANGED <<args, monthly_returns_arr, env, numpy, python, calls,
                   leaves, lookups, maxdepth, mainvars>>

\* Lines 101-106, returning; line 126 of the caller.
LastMonthReturn ==
    /\ Running
    /\ ~AtLimit(TopPython)
    /\ IsLastMonth(Top.month, args.num_months)
    /\ \E o \in {LastMonthOutcome(Top.month, Top.from_currency,
                                   Top.portfolio_value, monthly_returns_arr,
                                   env, TopPython)} :
         /\ o.ok
         /\ Finish(o.val, "last_month")
    /\ leaves' = leaves + 1
    /\ lookups' = lookups + 1
    /\ UNCHANGED <<args, monthly_returns_arr, env, numpy, python, calls, maxdepth,
                   mainvars>>

\* Lines 101-104, raising: os.getenv does not fit below the recursion
\* limit, or int() of the variable or the lookup fails.
LastMonthRaise ==
    /\ Running
    /\ ~AtLimit(TopPython)
    /\ IsLastMonth(Top.month, args.num_months)
    /\ \E o \in {LastMonthOutcome(Top.month, Top.from_currency,
                                   Top.portfolio_value, monthly_returns_arr,
                                   env, TopPython)} :
         /\ ~o.ok
         /\ Unwind(o.err)
    /\ lookups' = IF to_trade_currency(env, TopPython).ok
                   THEN lookups + 1 ELSE lookups
    /\ UNCHANGED <<args, monthly_returns_arr, env, numpy, python, calls, leaves,
                   maxdepth, mainvars>>

\* Lines 111-123: the next trade of the loop and the recursive call, whose
\* frame is entered: the frame on top is below the recursion limit.
Trade ==
    /\ Running
    /\ ~AtLimit(TopPython)
    /\ ~IsLastMonth(Top.month, args.num_months)
    /\ Top.to_trade_currency \in PyRange(args.num_currencies)
    /\ \E o \in {TradeOutcome(Top.month, Top.from_currency,
                               Top.portfolio_value, Top.to_trade_currency,
                               monthly_returns_arr)} :
         /\ o.ok
         /\ stack' = Append(stack,
                Frame(Top.month + 1, Top.to_trade_currency, o.val))
    /\ calls' = calls + 1
    /\ lookups' = lookups + 1
    /\ maxdepth' = IF Len(stack) + 1 > maxdepth THEN Len(stack) + 1
                    ELSE maxdepth
    /\ UNCHANGED <<args, monthly_returns_arr, env, numpy, python, outcome, result, error,
                   leaves, last, mainvars>>

\* Lines 111-113, raising: the lookup is out of the array's bounds.
TradeRaise ==
    /\ Running
    /\ ~AtLimit(TopPython)
    /\ ~IsLastMonth(Top.month, args.num_months)
    /\ Top.to_trade_currency \in PyRange(args.num_currencies)
    /\ \E o \in {TradeOutcome(Top.month, Top.from_currency,
                               Top.portfolio_value, Top.to_trade_currency,
                               monthly_returns_arr)} :
         /\ ~o.ok
         /\ Unwind(o.err)
    /\ lookups' = lookups + 1
    /\ UNCHANGED <<args, monthly_returns_arr, env, numpy, python, calls, leaves,
                   maxdepth, mainvars>>

\* Line 128: the loop is over; line 126 of the caller.
LoopReturn ==
    /\ Running
    /\ ~AtLimit(TopPython)
    /\ ~IsLastMonth(Top.month, args.num_months)
    /\ Top.to_trade_currency \notin PyRange(args.num_currencies)
    /\ Finish(Top.max_total_returns, "loop")
    /\ UNCHANGED <<args, monthly_returns_arr, env, numpy, python, calls, leaves,
                   lookups, maxdepth, mainvars>>

----------------------------------------------------------------------------
(* max_return as a function of its arguments and the environment: the      *)
(* value it returns or the exception it raises.                            *)

RECURSIVE max_return(_, _, _, _, _, _, _, _, _)
RECURSIVE max_return_loop(_, _, _, _, _, _, _, _, _, _, _)

\* Lines 111-128 from loop position d on, with max_total_returns = mx, in a
\* call running under py.
max_return_loop(d, mx, month, from_currency, portfolio_value, arr, num_months, num_currencies, e, np, py) ==
    IF d \notin PyRange(num_currencies) THEN Return(mx)
    ELSE Bind(TradeOutcome(month, from_currency, portfolio_value, d, arr),
           LAMBDA t :
             IF ~t.ok THEN t
             ELSE Bind(max_return(month + 1, d, t.val, arr, num_months,
                                  num_currencies, e, np, py),
                    LAMBDA n :
                      IF ~n.ok THEN n
                      ELSE Bind(PyMax(mx, n.val, np),
                             LAMBDA larger :
                               IF ~larger.ok THEN larger
                               ELSE max_return_loop(d + 1, larger.val, month,
                                        from_currency, portfolio_value, arr,
                                        num_months, num_currencies, e, np,
                                        py))))

\* Lines 75-128, called under the environment e, the numpy release np and
\* the interpreter py.
max_return(month, from_currency, portfolio_value, arr, num_months, num_currencies, e, np, py) ==
    Bind(PyCall(py),
      LAMBDA f :
        IF ~f.ok THEN f
        ELSE IF AtLimit(f.val) THEN Raise("RecursionError")
        ELSE IF IsLastMonth(month, num_months)
        THEN LastMonthOutcome(month, from_currency, portfolio_value, arr, e,
                              f.val)
        ELSE max_return_loop(0, max_total_returns, month, from_currency,
                             portfolio_value, arr, num_months, num_currencies,
                             e, np, f.val))

\* t[k] of a tuple, counted from 0: an IndexError past its end.
TupleGet(t, k) == IF k < Len(t) THEN Return(t[k + 1]) ELSE Raise("IndexError")

\* int(os.getenv(name, "0")) under py.
IntSetting(e, name, py) ==
    Bind(os_getenv(e, name, <<"0">>, py),
         LAMBDA s : IF ~s.ok THEN s ELSE PyInt(s.val))

\* Lines 131-162, called under py: the shape is read, then the variables,
\* then max_return is called.
calculate_max_return(arr, e, np, py) ==
    Bind(PyCall(py),
      LAMBDA f :
        IF ~f.ok THEN f
        ELSE LET num_months == TupleGet(arr.shape, 0)
                 num_currencies == TupleGet(arr.shape, 1)
                 from_currency == IntSetting(e, "FROM_CURRENCY", f.val)
                 first_month == IntSetting(e, "START_MONTH", f.val)
             IN  IF ~num_months.ok THEN num_months
                 ELSE IF ~num_currencies.ok THEN num_currencies
                 ELSE IF ~from_currency.ok THEN from_currency
                 ELSE IF ~first_month.ok THEN first_month
                 ELSE max_return(first_month.val, from_currency.val, Num(1),
                                 arr, num_months.val, num_currencies.val, e,
                                 np, f.val))

----------------------------------------------------------------------------
(* The calls of max_return that are explored. *)

\* Values of TO_TRADE_CURRENCY: unset, a currency index, an index past the
\* array, a negative index, an index after a blank, not a number.
TargetEnv ==
    {Unset, <<"-", "1">>, <<" ", "1">>, <<"x">>}
      \cup {Str(t) : t \in 0..MaxCurrencies}

Args(m, c, v, nm, nc) ==
    [month |-> m, from_currency |-> c, portfolio_value |-> v,
     num_months |-> nm, num_currencies |-> nc]

\* The state before the call a of max_return on arr, under a setting of
\* TO_TRADE_CURRENCY, a numpy release and an interpreter.
InitCallUnder(a, arr, target, np, py) ==
    /\ args = a
    /\ monthly_returns_arr = arr
    /\ env = [NoEnv EXCEPT !["TO_TRADE_CURRENCY"] = target]
    /\ numpy = np
    /\ python = py
    /\ stack = <<>>
    /\ outcome = "idle"
    /\ result = Num(0)
    /\ error = None
    /\ calls = 0
    /\ leaves = 0
    /\ lookups = 0
    /\ maxdepth = 0
    /\ last = NoCall
    /\ main_pc = "off"
    /\ input_args = <<>>
    /\ fs = NoFile
    /\ monthly_returns_matrix = NoMatrix
    /\ stdout = <<>>
    /\ log = <<>>
    /\ trace = <<>>
    /\ exit_code = 0

\* The same for a call from the module's top level, where every array
\* compared has an element, so that the numpy releases agree.
InitCall(a, arr, target) ==
    \E specialized \in BOOLEAN :
      InitCallUnder(a, arr, target, "from_2_2", TopLevel(specialized))

\* Calls that meet the preconditions of max_return.
InitValid ==
    \E nm \in 1..MaxMonths, nc \in 1..MaxCurrencies, seed \in 0..MaxSeed,
       v \in 0..MaxValue, target \in TargetEnv :
      \E m \in 0..(nm - 1), c \in 0..(nc - 1) :
        InitCall(Args(m, c, v, nm, nc), Tensor(<<nm, nc, nc>>, seed), target)

\* The scenario of the design document, from either currency.
InitScenario ==
    \E c \in 0..1, target \in {Unset, Str(0)} :
      InitCall(Args(0, c, 1, 2, 2), ScenarioTensor, target)

\* Calls that meet the preconditions but for a negative rate in the array.
InitNegativeRate ==
    \E nm \in 1..MaxMonths, nc \in 1..MaxCurrencies, seed \in 0..MaxSeed,
       v \in 1..MaxValue :
      \E m \in 0..(nm - 1), c \in 0..(nc - 1) :
        InitCall(Args(m, c, v, nm, nc), LoweredTensor(<<nm, nc, nc>>, seed),
                 Unset)

\* Calls whose month is out of range.
InitBadMonth ==
    \E nm \in 1..MaxMonths, nc \in 1..MaxCurrencies, seed \in 0..MaxSeed,
       v \in 0..MaxValue, target \in TargetEnv :
      \E m \in {-1, nm, nm + 1}, c \in 0..(nc - 1) :
        InitCall(Args(m, c, v, nm, nc), Tensor(<<nm, nc, nc>>, seed), target)

\* Calls whose currency is out of range.
InitBadCurrency ==
    \E nm \in 1..MaxMonths, nc \in 1..MaxCurrencies, seed \in 0..MaxSeed,
       v \in 0..MaxValue, target \in TargetEnv :
      \E m \in 0..(nm - 1), c \in {-1, nc} :
        InitCall(Args(m, c, v, nm, nc), Tensor(<<nm, nc, nc>>, seed), target)

\* Calls whose value is negative.
InitBadValue ==
    \E nm \in 1..MaxMonths, nc \in 1..MaxCurrencies, seed \in 0..MaxSeed,
       target \in TargetEnv :
      \E m \in 0..(nm - 1), c \in 0..(nc - 1) :
        InitCall(Args(m, c, -1, nm, nc), Tensor(<<nm, nc, nc>>, seed), target)

\* Calls whose array has another shape than (num_months, num_currencies,
\* num_currencies).
InitBadShape ==
    \E nm \in 1..MaxMonths, nc \in 1..MaxCurrencies, seed \in 0..MaxSeed,
       tm \in 1..MaxMonths, ts \in 1..MaxCurrencies, td \in 1..MaxCurrencies :
      \E m \in 0..(nm - 1), c \in 0..(nc - 1) :
        /\ <<tm, ts, td>> # <<nm, nc, nc>>
        /\ InitCall(Args(m, c, 1, nm, nc), Tensor(<<tm, ts, td>>, seed), Unset)

\* Calls whose array has a fourth axis.
InitFourthAxis ==
    \E nm \in 1..MaxMonths, nc \in 1..MaxCurrencies, seed \in 0..MaxSeed,
       ta \in 0..MaxAxis, np \in NumpyReleases, specialized \in BOOLEAN :
      \E m \in 0..(nm - 1), c \in 0..(nc - 1) :
        InitCallUnder(Args(m, c, 1, nm, nc), Tensor(<<nm, nc, nc, ta>>, seed),
                      Unset, np, TopLevel(specialized))

\* The settings of TO_TRADE_CURRENCY of the calls near the recursion limit.
NearLimitEnv == {Unset, Str(0), <<"x">>}

\* Calls that meet the preconditions, made with the stack nearly full: the
\* caller's frame leaves room for 0..MaxRoom frames.  These are the callers
\* a long recursion has at its end.
InitNearLimit ==
    \E nm \in 1..MaxMonths, nc \in 1..MaxCurrencies, seed \in {0, MaxSeed},
       target \in NearLimitEnv, room \in 0..MaxRoom, specialized \in BOOLEAN :
      \E m \in 0..(nm - 1), c \in 0..(nc - 1) :
        InitCallUnder(Args(m, c, 1, nm, nc), Tensor(<<nm, nc, nc>>, seed),
                      target, "from_2_2",
                      Interpreter(RecursionLimit - room, specialized))

\* The array of the given number of months over one currency whose every
\* rate is 1.
Ones(num_months) ==
    [shape |-> <<num_months, 1, 1>>,
     data |-> [p \in 1..num_months |-> <<<<1>>>>]]

\* A valid call of more months than the interpreter has frames, over one
\* currency, from the module's top level.
InitLongHorizon ==
    InitCall(Args(0, 0, 1, RecursionLimit + 100, 1),
             Ones(RecursionLimit + 100), Unset)

Init ==
    \/ InitValid
    \/ InitScenario
    \/ InitNegativeRate
    \/ InitBadMonth
    \/ InitBadCurrency
    \/ InitBadValue
    \/ InitBadShape
    \/ InitFourthAxis
    \/ InitNearLimit
    \/ InitLongHorizon

Next ==
    \/ Call
    \/ CallRaise
    \/ LimitRaise
    \/ LastMonthReturn
    \/ LastMonthRaise
    \/ Trade
    \/ TradeRaise
    \/ LoopReturn

Spec == Init /\ [][Next]_vars

\* Every rate of a three-dimensional array is non-negative.
NonNegative(arr) ==
    \A p \in 1..arr.shape[1], i \in 1..arr.shape[2], j \in 1..arr.shape[3] :
      arr.data[p][i][j] >= 0

\* The arguments are in the ranges max_return is specified for.
ValidArgs ==
    /\ 0 <= args.month /\ args.month < args.num_months
    /\ 0 <= args.from_currency /\ args.from_currency < args.num_currencies
    /\ args.portfolio_value >= 0
    /\ monthly_returns_arr.shape =
         <<args.num_months, args.num_currencies, args.num_currencies>>

\* The preconditions of max_return hold of the outer call.
ValidCall == ValidArgs /\ NonNegative(monthly_returns_arr)

\* The configured target currency, when TO_TRADE_CURRENCY names one.
target_currency == PyInt(getenv(env, "TO_TRADE_CURRENCY", <<"0">>))

\* max_return as a function, of the outer call's arguments but for the
\* value v, under the environment e.
OuterCall(v, e) ==
    max_return(args.month, args.from_currency, Num(v), monthly_returns_arr,
               args.num_months, args.num_currencies, e, numpy, python)

ValidTarget ==
    /\ target_currency.ok
    /\ 0 <= target_currency.val
    /\ target_currency.val < args.num_currencies

Done == outcome \in {"returned", "raised"}

\* The outer call's result agrees with max_return as a function.
StepsAgree ==
    Done =>
      LET r == OuterCall(args.portfolio_value, env)
      IN  /\ r.ok = (outcome = "returned")
          /\ r.ok => r.val.shape = result.shape /\ r.val.data = result.data
          /\ ~r.ok => r.err = error

----------------------------------------------------------------------------
(* load_data and main.  The file is what DATA_FOLDER + input_filename      *)
(* holds: nothing, text that is not JSON, or a JSON value.                 *)

Line(tag) == [line |-> tag, pct |-> 0]

\* Only the number of axes is looked at.
ShapeAcceptedAnyLength(shape) == Len(shape) = 3

\* Line 49: the shape load_data accepts.
ShapeAccepted(shape) ==
    shape = <<RequiredMonths, RequiredCurrencies, RequiredCurrencies>>

Loaded(ok, val, err, out) == [ok |-> ok, val |-> val, err |-> err, out |-> out]

\* Lines 39-72: the array, or the exception raised, with the lines printed.
load_data(file) ==
    IF ~file.exists
    THEN Loaded(FALSE, NoMatrix, "FileNotFoundError", <<Line("file_not_found")>>)
    ELSE IF ~file.json
    THEN Loaded(FALSE, NoMatrix, "JSONDecodeError", <<Line("json_problem")>>)
    ELSE LET a == NpArray(file.value)
         IN  IF ~a.ok
             THEN Loaded(FALSE, NoMatrix, a.err, <<Line("unexpected_problem")>>)
             ELSE IF ~ShapeAccepted(a.val.shape)
             THEN Loaded(FALSE, NoMatrix, "Exception",
                         <<Line("shape_required"), Line("unexpected_problem")>>)
             ELSE Loaded(TRUE, a.val, None, <<>>)

\* The handler without its sys.exit(1): main returns.
FailReturns(logged, out) ==
    /\ log' = log \o logged \o <<"exception">>
    /\ stdout' = stdout \o out \o <<Line("could_not_calculate")>>
    /\ main_pc' = "returned"
    /\ exit_code' = exit_code

\* Lines 211-216: after the records logged and the lines out printed in the
\* try block, the handler of main logs the exception, prints and exits.
Fail(logged, out) ==
    /\ log' = log \o logged \o <<"exception">>
    /\ stdout' = stdout \o out \o <<Line("could_not_calculate")>>
    /\ main_pc' = "exited"
    /\ exit_code' = 1

\* The interpreter inside main: main's frame over its caller's.
InMain == [python EXCEPT !.frames = python.frames + 1]

\* Lines 185-192: no file name was given.
MainNoArgs ==
    /\ main_pc = "start"
    /\ input_args = <<>>
    /\ stdout' = stdout \o <<Line("no_file_name"), Line("usage")>>
    /\ main_pc' = "exited"
    /\ exit_code' = 1
    /\ UNCHANGED <<optvars, env, numpy, python, input_args, fs,
                   monthly_returns_matrix, log, trace>>

\* Lines 185-200: load_data returns the array.
MainLoad ==
    /\ main_pc = "start"
    /\ input_args # <<>>
    /\ LET r == load_data(fs)
       IN  /\ r.ok
           /\ monthly_returns_matrix' = r.val
           /\ stdout' = stdout \o r.out
    /\ trace' = Append(trace, "load_data")
    /\ log' = log \o <<"loading", "loaded", "calculating">>
    /\ main_pc' = "loaded"
    /\ UNCHANGED <<optvars, env, numpy, python, input_args, fs, exit_code>>

\* Lines 185-197 and 211-216: the load is logged and load_data raises.
MainLoadFail ==
    /\ main_pc = "start"
    /\ input_args # <<>>
    /\ LET r == load_data(fs)
       IN  /\ ~r.ok
           /\ Fail(<<"loading">>, r.out)
    /\ trace' = Append(trace, "load_data")
    /\ UNCHANGED <<optvars, env, numpy, python, input_args, fs,
                   monthly_returns_matrix>>

\* Lines 203-210: calculate_max_return returns and the result is printed.
MainCalculate ==
    /\ main_pc = "loaded"
    /\ LET r == calculate_max_return(monthly_returns_matrix, env, numpy, InMain)
       IN  /\ r.ok
           /\ stdout' = Append(stdout,
                  [line |-> "maximum_possible_return",
                   pct |-> (r.val.data - 1) * 100])
    /\ trace' = Append(trace, "calculate_max_return")
    /\ log' = Append(log, "maximum_possible_return")
    /\ main_pc' = "returned"
    /\ UNCHANGED <<optvars, env, numpy, python, input_args, fs,
                   monthly_returns_matrix, exit_code>>

\* Lines 203 and 211-216: calculate_max_return raises.
MainCalculateFail ==
    /\ main_pc = "loaded"
    /\ ~calculate_max_return(monthly_returns_matrix, env, numpy, InMain).ok
    /\ Fail(<<>>, <<>>)
    /\ trace' = Append(trace, "calculate_max_return")
    /\ UNCHANGED <<optvars, env, numpy, python, input_args, fs,
                   monthly_returns_matrix>>

MainNext ==
    \/ MainNoArgs
    \/ MainLoad
    \/ MainLoadFail
    \/ MainCalculate
    \/ MainCalculateFail

\* The shapes of the JSON arrays in the files explored: the required one and
\* its neighbours.
FileShapes ==
    {<<RequiredMonths, RequiredCurrencies, RequiredCurrencies>>,
     <<RequiredMonths - 1, RequiredCurrencies, RequiredCurrencies>>,
     <<RequiredMonths + 1, RequiredCurrencies, RequiredCurrencies>>,
     <<RequiredMonths, RequiredCurrencies, RequiredCurrencies - 1>>,
     <<RequiredMonths, RequiredCurrencies - 1, RequiredCurrencies>>,
     <<RequiredCurrencies, RequiredCurrencies, RequiredMonths>>,
     <<RequiredMonths, RequiredCurrencies>>,
     <<RequiredMonths, RequiredCurrencies, RequiredCurrencies, 1>>,
     <<>>}

JsonFile(value) == [exists |-> TRUE, json |-> TRUE, value |-> value]

\* [[1, 2], [3]]: a nesting that is no array.
RaggedJson ==
    [t |-> "list",
     items |-> <<[t |-> "list", items |-> <<[t |-> "num", v |-> 1],
                                            [t |-> "num", v |-> 2]>>],
                 [t |-> "list", items |-> <<[t |-> "num", v |-> 3]>>]>>]

Files ==
    {NoFile, [NoFile EXCEPT !.exists = TRUE], JsonFile(RaggedJson)}
      \cup {JsonFile(JsonNested(shape, <<>>, seed, 0)) :
              shape \in FileShapes, seed \in {0, MaxSeed}}

\* The settings of START_MONTH explored: late months, one of them written
\* with an underscore, the month past the year, not a number.  (From month 0
\* the search visits 4^11 paths.)
StartMonths ==
    {Str(RequiredMonths - 1), Str(RequiredMonths - 3), Str(RequiredMonths),
     <<"1", "_", "0">>, <<"x">>}

FromCurrencies ==
    {Unset, Str(RequiredCurrencies - 1), <<"3", " ">>, Str(RequiredCurrencies),
     <<"x">>}

TargetCurrencies == {Unset, Str(1), Str(RequiredCurrencies)}

MainInit ==
    /\ input_args \in {<<>>, <<"currency_data.txt">>}
    /\ fs \in Files
    /\ \E sm \in StartMonths, fc \in FromCurrencies, tc \in TargetCurrencies :
         env = [NoEnv EXCEPT !["START_MONTH"] = sm, !["FROM_CURRENCY"] = fc,
                             !["TO_TRADE_CURRENCY"] = tc]
    /\ numpy = "from_2_2"
    /\ python = TopLevel(FALSE)
    /\ main_pc = "start"
    /\ monthly_returns_matrix = NoMatrix
    /\ stdout = <<>>
    /\ log = <<>>
    /\ trace = <<>>
    /\ exit_code = 0
    /\ args = Args(0, 0, 0, 0, 0)
    /\ monthly_returns_arr = NoMatrix
    /\ stack = <<>>
    /\ outcome = "idle"
    /\ result = Num(0)
    /\ error = None
    /\ calls = 0
    /\ leaves = 0
    /\ lookups = 0
    /\ maxdepth = 0
    /\ last = NoCall

MainSpec == MainInit /\ [][MainNext]_vars

\* The calls whose termination is checked, all of the unit value: the valid
\* ones, and those that start a month before the first or after the last.
FairInit ==
    \/ \E nm \in 1..MaxMonths, nc \in 1..MaxCurrencies, seed \in 0..MaxSeed,
          target \in TargetEnv :
         \E m \in -1..nm, c \in 0..(nc - 1) :
           InitCall(Args(m, c, 1, nm, nc), Tensor(<<nm, nc, nc>>, seed),
                    target)
    \/ InitNearLimit

\* These calls with the progress a running interpreter makes: a step that
\* can be taken is taken.
FairSpec == FairInit /\ [][Next]_vars /\ WF_vars(Next)

----------------------------------------------------------------------------
(* What the design document specifies, stated independently of the code. *)

SetMax(S) == CHOOSE x \in S : \A y \in S : y <= x

RECURSIVE Power(_, _)
Power(b, n) == IF n <= 0 THEN 1 ELSE b * Power(b, n - 1)

\* The currencies of the outer call.
Currencies == 0..(args.num_currencies - 1)

\* rate[p][c][d] of the outer call's array, for indices in range.
RateOf(p, c, d) == monthly_returns_arr.data[p + 1][c + 1][d + 1]

\* The legal paths from month m: a free destination in each of the months
\* m .. num_months-2; the last month converts into the target.
LegalPaths(m) ==
    [1..(args.num_months - 1 - m) -> Currencies]

\* The product of the rate factors along a legal path that starts in
\* currency c at month m.
RECURSIVE PathProduct(_, _, _)
PathProduct(path, m, c) ==
    IF path = <<>> THEN RateOf(m, c, target_currency.val)
    ELSE RateOf(m, c, path[1]) * PathProduct(Tail(path), m + 1, path[1])

BestProduct(m, c) == SetMax({PathProduct(path, m, c) : path \in LegalPaths(m)})

\* The bottom-up table of the design document.
RECURSIVE V(_, _)
V(p, c) ==
    IF p = args.num_months - 1 THEN RateOf(p, c, target_currency.val)
    ELSE SetMax({RateOf(p, c, d) * V(p + 1, d) :
                   d \in Currencies})

\* The recursive call for month m into currency d with value v on the outer
\* call's array, made by the active call for month m - 1.
Continue(m, d, v) ==
    max_return(m, d, Num(v), monthly_returns_arr, args.num_months,
               args.num_currencies, env, numpy,
               [python EXCEPT !.frames = python.frames + m - args.month])

\* C1: a valid call returns value times the largest product of rate factors
\* over the legal paths, and before the last month that is the largest of
\* the results of continuing from each destination.
C1_MaxOverLegalPaths ==
    (Done /\ ValidCall /\ ValidTarget) =>
      /\ outcome = "returned"
      /\ result = Num(args.portfolio_value
                         * BestProduct(args.month, args.from_currency))
      /\ args.month < args.num_months - 1 =>
           LET next == [d \in Currencies |->
                          Continue(args.month + 1, d,
                                   args.portfolio_value
                                     * RateOf(args.month, args.from_currency,
                                              d))]
           IN  /\ \A d \in Currencies : next[d].ok
               /\ result = Num(SetMax({next[d].val.data : d \in Currencies}))

\* C2: in a valid run every call for the last month returns value times the
\* rate into the target without looping or recursing, every call for an
\* earlier month returns the largest continuation over all destinations,
\* and an outer call for the last month is the only call made.
C2_TerminalRule ==
    (ValidCall /\ ValidTarget) =>
      /\ (last.how # "none" /\ last.month = args.num_months - 1) =>
           /\ last.how = "last_month"
           /\ last.ret = Num(last.portfolio_value.data
                               * RateOf(last.month, last.from_currency,
                                        target_currency.val))
      /\ (last.how # "none" /\ last.month < args.num_months - 1) =>
           LET next == [d \in Currencies |->
                          Continue(last.month + 1, d,
                                   last.portfolio_value.data
                                     * RateOf(last.month, last.from_currency,
                                              d))]
           IN  /\ last.how = "loop"
               /\ \A d \in Currencies : next[d].ok
               /\ last.ret = Num(SetMax({next[d].val.data :
                                           d \in Currencies}))
      /\ \A k \in 1..Len(stack) :
           stack[k].month = args.num_months - 1 =>
             /\ k = Len(stack)
             /\ stack[k].to_trade_currency = 0
             /\ stack[k].max_total_returns = Num(0)
      /\ (Done /\ args.month = args.num_months - 1) =>
           /\ outcome = "returned"
           /\ result = Num(args.portfolio_value
                             * RateOf(args.month, args.from_currency,
                                      target_currency.val))
           /\ calls = 1 /\ maxdepth = 1 /\ lookups = 1 /\ leaves = 1

\* The call is invalid in one of the ways the design document lists.
InvalidInput == ~ValidArgs

\* The call ended in a precondition failure raised before any lookup or
\* recursive call.
PreconditionFailure ==
    /\ outcome = "raised"
    /\ error \in {"InvalidRange", "InvalidShape"}
    /\ lookups = 0
    /\ calls = 1

\* C3: max_return never produces a result for invalid input: a call with an
\* invalid month, currency, value or array shape returns no value.  (The
\* claim's other clause, that such a call ends in PreconditionFailure, fails
\* of every invalid call: max_return has no such check.)
C3_InvalidInputRejected ==
    (Done /\ InvalidInput) => outcome # "returned"

\* The settings of TO_TRADE_CURRENCY that name a currency of the call.
CurrencySettings ==
    {t \in TargetEnv :
       t # Unset /\ PyInt(t).ok /\ PyInt(t).val \in 0..(args.num_currencies - 1)}

\* C4: the value a valid call returns is a function of its six arguments:
\* it is the same under every setting of TO_TRADE_CURRENCY that names a
\* currency.
C4_NoAmbientConfiguration ==
    (outcome = "returned" /\ ValidCall /\ ValidTarget) =>
      \A target \in CurrencySettings :
        OuterCall(args.portfolio_value,
                  [env EXCEPT !["TO_TRADE_CURRENCY"] = target])
          = Return(result)

\* C5: a valid call returns value times the table entry V[month][currency].
C5_AgreesWithTable ==
    (Done /\ ValidCall /\ ValidTarget) =>
      /\ outcome = "returned"
      /\ result = Num(args.portfolio_value * V(args.month, args.from_currency))

\* C6: scaling the value of a valid call by k >= 1 scales what max_return
\* returns by k.
C6_Homogeneous ==
    (Done /\ ValidCall /\ ValidTarget) =>
      /\ outcome = "returned"
      /\ \A k \in 1..MaxFactor :
           OuterCall(k * args.portfolio_value, env)
             = Return(Num(k * result.data))

\* C9: on an array of non-negative rates a valid call passes only
\* non-negative values to its recursive calls and returns a non-negative
\* value.
C9_NonNegative ==
    ValidCall =>
      /\ \A k \in 1..Len(stack) : stack[k].portfolio_value.data >= 0
      /\ last.ret.data >= 0
      /\ outcome = "returned" => result.data >= 0

\* A recursive call has been passed the value 0 while its caller holds a
\* positive one: a zero rate was traded.
C9_Witness ==
    /\ ValidCall
    /\ Len(stack) >= 2
    /\ stack[Len(stack)].portfolio_value = Num(0)
    /\ stack[Len(stack) - 1].portfolio_value.data > 0

\* The number of calls of a search of the months m .. num_months-1.
RECURSIVE CallCount(_)
CallCount(m) ==
    IF m >= args.num_months - 1 THEN 1
    ELSE 1 + args.num_currencies * CallCount(m + 1)

\* The month of each active call is one more than its caller's, the stack is
\* never deeper than num_months - month, and the calls stay within the size
\* of the search tree.
RecursionBounded ==
    /\ \A k \in 1..Len(stack) : stack[k].month = args.month + k - 1
    /\ Len(stack) <= args.num_months - args.month
    /\ maxdepth <= args.num_months - args.month
    /\ calls <= CallCount(args.month)
    /\ outcome = "returned" =>
         /\ leaves = Power(args.num_currencies,
                           args.num_months - 1 - args.month)
         /\ calls = CallCount(args.month)
         /\ maxdepth = args.num_months - args.month

\* C10: a valid call terminates with the maximum returned; along the way
\* the month grows by one per recursive call, the depth stays within
\* num_months - month, and on return num_currencies^(num_months-1-month)
\* last-month evaluations were made.
C10_Terminates ==
    /\ [](ValidCall => RecursionBounded)
    /\ [](ValidCall /\ ValidTarget /\ Done => outcome = "returned")
    /\ (ValidCall ~> Done)

----------------------------------------------------------------------------
(* main and load_data. *)

Printed(tag) == \E k \in 1..Len(stdout) : stdout[k].line = tag

Invoked(f) == \E k \in 1..Len(trace) : trace[k] = f

\* The file parses to an array.
Parsed == fs.exists /\ fs.json /\ NpArray(fs.value).ok

ParsedShape == NpArray(fs.value).val.shape

RequiredShape == <<RequiredMonths, RequiredCurrencies, RequiredCurrencies>>

\* C7: an array of another shape than (12, 4, 4) never reaches the
\* optimizer: load_data raises, calculate_max_return is not invoked, no
\* result is printed and the process exits non-zero; load_data returns an
\* array only of shape (12, 4, 4).
C7_MalformedNeverReachesOptimizer ==
    /\ (Parsed /\ ParsedShape # RequiredShape /\ input_args # <<>>) =>
         /\ ~load_data(fs).ok
         /\ main_pc \in {"start", "exited"}
         /\ ~Invoked("calculate_max_return")
         /\ ~Printed("maximum_possible_return")
         /\ main_pc = "exited" => exit_code # 0
    /\ load_data(fs).ok => load_data(fs).val.shape = RequiredShape
    /\ (main_pc \in {"loaded", "returned"} \/ Invoked("calculate_max_return")) =>
         /\ Parsed /\ ParsedShape = RequiredShape
         /\ monthly_returns_matrix.shape = RequiredShape

\* main has exited on a file holding an array of shape (12, 4, 3), after
\* load_data printed the required format.
C7_Witness ==
    /\ main_pc = "exited"
    /\ Parsed
    /\ ParsedShape = <<RequiredMonths, RequiredCurrencies, RequiredCurrencies - 1>>
    /\ trace = <<"load_data">>
    /\ Printed("shape_required")
    /\ exit_code = 1

\* C8: a failing run exits non-zero and prints no result: without arguments
\* main prints the usage and exits before load_data; when load_data or
\* calculate_max_return raises, main logs the exception and exits; the
\* result is printed only after load_data and then calculate_max_return
\* have completed.
C8_FailuresExitNonZero ==
    /\ (input_args = <<>> /\ main_pc # "start") =>
         /\ main_pc = "exited" /\ exit_code # 0
         /\ Printed("usage")
         /\ trace = <<>>
    /\ main_pc = "exited" =>
         /\ exit_code # 0
         /\ ~Printed("maximum_possible_return")
         /\ input_args # <<>> => log[Len(log)] = "exception"
    /\ (input_args # <<>> /\ main_pc # "start" /\ ~load_data(fs).ok) =>
         main_pc = "exited" /\ trace = <<"load_data">>
    /\ (main_pc \notin {"start", "loaded"} /\ load_data(fs).ok
          /\ input_args # <<>>
          /\ ~calculate_max_return(load_data(fs).val, env, numpy, InMain).ok) =>
         main_pc = "exited"
    /\ Printed("maximum_possible_return") =>
         /\ trace = <<"load_data", "calculate_max_return">>
         /\ main_pc = "returned"
         /\ load_data(fs).ok
         /\ calculate_max_return(load_data(fs).val, env, numpy, InMain).ok

\* main has exited with status 1 after calculate_max_return raised on a
\* loaded array.
C8_Witness ==
    /\ main_pc = "exited"
    /\ exit_code = 1
    /\ trace = <<"load_data", "calculate_max_return">>
    /\ monthly_returns_matrix.shape = RequiredShape
    /\ Printed("could_not_calculate")
    /\ ~Printed("maximum_possible_return")

====
